---------------------------- MODULE Spec2Model ----------------------------
(***************************************************************************)
(* Model of the choropleth generators of src/heatmaps.py and               *)
(* src/summ_stats.py: region-code normalisation (strip / split / explode / *)
(* strip), the derived adoption rate, the pandas left merge against the    *)
(* boundary table, the colour-scale branch, and the two batch drivers.     *)
(*                                                                         *)
(* Strings are sequences of one-character symbols.  Floating point values  *)
(* are records [k, n, d]: k = "num" is the exact fraction n/d, k = "nan"   *)
(* is the missing value NaN, k = "inf" is +infinity, k = "none" is         *)
(* Python's None (only for the vmin / vmax arguments).                     *)
(***************************************************************************)
EXTENDS Integers, Sequences, FiniteSets, TLC

VARIABLES
    india_districts_shp,    \* data/gadm41_IND_2.shp: [exists, keys], keys = the HASC_2 column
    india_districts_gjson,  \* data/INDIA_DISTRICTS.geojson: [exists, keys]
    india_states_gjson,     \* data/INDIA_STATES.geojson: [exists, keys], keys = STNAME_SH
    main_data_csv,          \* data/main_data.csv: [exists, rows]
    summary_csv,            \* data/Summary_Stats_Data.csv: [exists, rows]
    year,                   \* argument of generate_theft_heatmap / generate_adoption_heatmap
    column_name,            \* argument of generate_summary_stat_heatmap
    vmin,                   \* argument vmin (None when omitted)
    vmax,                   \* argument vmax (None when omitted)
    out,                    \* what the last generator call did: joined table, scale at render, image
    images,                 \* the image files on disk
    calls,                  \* log of the generator calls a batch driver has made
    pc,                     \* position of the running program
    loop_i,                 \* index of the next period / column of the batch loop
    program,                \* "library" (one generator call), or the module run as a script
    scales                  \* the scales a batch driver computed before its loop

vars == <<india_districts_shp, india_districts_gjson, india_states_gjson,
          main_data_csv, summary_csv, year, column_name, vmin, vmax,
          out, images, calls, pc, loop_i, program, scales>>

files == <<india_districts_shp, india_districts_gjson, india_states_gjson,
           main_data_csv, summary_csv>>

args == <<year, column_name, vmin, vmax>>

----------------------------------------------------------------------------
(* Bounds of the model *)

MaxLen == 6          \* longest raw District_Code field in the normalisation inputs
MaxRows == 2         \* most statistics rows in the join inputs
MaxFeatures == 3     \* most boundary polygons in the join inputs
MaxScaleRows == 1    \* most statistics rows in the scale inputs

----------------------------------------------------------------------------
(* Floating point values *)

RECURSIVE GCD(_, _)
GCD(a, b) == IF b = 0 THEN a ELSE GCD(b, a % b)

Num(n) == [k |-> "num", n |-> n, d |-> 1]
Frac(n, d) == LET g == GCD(n, d) IN [k |-> "num", n |-> n \div g, d |-> d \div g]
NaN == [k |-> "nan", n |-> 0, d |-> 1]
Inf == [k |-> "inf", n |-> 0, d |-> 1]
None == [k |-> "none", n |-> 0, d |-> 1]

\* IEEE comparison a < b: every comparison with NaN is false.
Lt(a, b) ==
    IF a.k = "nan" \/ b.k = "nan" THEN FALSE
    ELSE IF a.k = "inf" THEN FALSE
    ELSE IF b.k = "inf" THEN TRUE
    ELSE a.n * b.d < b.n * a.d

Leq(a, b) == a.k # "nan" /\ b.k # "nan" /\ ~Lt(b, a)

\* pandas Series / Series on float data: x/0 is inf, 0/0 is NaN, NaN propagates.
Div(a, b) ==
    IF a.k = "nan" \/ b.k = "nan" THEN NaN
    ELSE IF a.k = "inf" THEN (IF b.k = "inf" THEN NaN ELSE Inf)
    ELSE IF b.k = "inf" THEN Num(0)
    ELSE IF b.n = 0 THEN (IF a.n = 0 THEN NaN ELSE Inf)
    ELSE Frac(a.n * b.d, a.d * b.n)

Times100(a) == IF a.k = "num" THEN Frac(a.n * 100, a.d) ELSE a

\* Python's builtin min(list): keeps the first element unless a later one
\* compares smaller.
RECURSIVE PyMinFrom(_, _)
PyMinFrom(cur, s) ==
    IF s = <<>> THEN cur
    ELSE PyMinFrom(IF Lt(Head(s), cur) THEN Head(s) ELSE cur, Tail(s))

PyMin(s) == PyMinFrom(Head(s), Tail(s))

RECURSIVE PyMaxFrom(_, _)
PyMaxFrom(cur, s) ==
    IF s = <<>> THEN cur
    ELSE PyMaxFrom(IF Lt(cur, Head(s)) THEN Head(s) ELSE cur, Tail(s))

PyMax(s) == PyMaxFrom(Head(s), Tail(s))

IsNotNaN(v) == v.k # "nan"

\* pandas Series.min() / .max(): missing values are skipped; NaN when nothing is left.
PdMin(s) == LET t == SelectSeq(s, IsNotNaN) IN IF t = <<>> THEN NaN ELSE PyMin(t)
PdMax(s) == LET t == SelectSeq(s, IsNotNaN) IN IF t = <<>> THEN NaN ELSE PyMax(t)

----------------------------------------------------------------------------
(* Strings *)

SP == " "
COMMA == ","
NA == <<"<NA>">>     \* the missing value in a string column

IsSpace(c) == c = SP

RECURSIVE LStrip(_)
LStrip(s) == IF s # <<>> /\ IsSpace(Head(s)) THEN LStrip(Tail(s)) ELSE s

RECURSIVE RStrip(_)
RStrip(s) ==
    IF s # <<>> /\ IsSpace(s[Len(s)]) THEN RStrip(SubSeq(s, 1, Len(s) - 1)) ELSE s

\* str.strip()
Strip(s) == RStrip(LStrip(s))

\* str.split(','): the pieces between the commas, empty pieces kept.
RECURSIVE SplitFrom(_, _)
SplitFrom(piece, s) ==
    IF s = <<>> THEN <<piece>>
    ELSE IF Head(s) = COMMA THEN <<piece>> \o SplitFrom(<<>>, Tail(s))
    ELSE SplitFrom(Append(piece, Head(s)), Tail(s))

Split(s) == SplitFrom(<<>>, s)


----------------------------------------------------------------------------
(* Data frames *)

TheftYears == <<2017, 2018, 2019>>
AdoptionYears == <<2018, 2019, 2020>>

Range(s) == {s[i] : i \in 1..Len(s)}

RECURSIVE Flatten(_)
Flatten(ss) == IF ss = <<>> THEN <<>> ELSE Head(ss) \o Flatten(Tail(ss))

\* Series.str.strip() followed by Series.str.split(','): the code column becomes
\* a list of pieces per row.
StripSplit(rows) ==
    [i \in 1..Len(rows) |-> [rows[i] EXCEPT !.District_Code = Split(Strip(@))]]

\* DataFrame.explode('District_Code'): one row per list element, in list order,
\* the index and every other column repeated; an empty list gives one row
\* holding the missing value.
ExplodeRow(r, i) ==
    IF r.District_Code = <<>>
    THEN << [idx |-> i] @@ [r EXCEPT !.District_Code = NA] >>
    ELSE [j \in 1..Len(r.District_Code) |->
            [idx |-> i] @@ [r EXCEPT !.District_Code = r.District_Code[j]]]

Explode(rows) == Flatten([i \in 1..Len(rows) |-> ExplodeRow(rows[i], i)])

\* Mutant: the strip after explode is left out.
StripCodesOmitted(rows) == rows

\* Series.str.strip() on the exploded code column.
StripCodes(rows) ==
    [i \in 1..Len(rows) |-> [rows[i] EXCEPT !.District_Code = Strip(@)]]

\* The rows of the right table whose key equals k, in table order.
Matches(k, right) == LET Hit(r) == r.right_on = k IN SelectSeq(right, Hit)

\* Mutant: a boundary row without a match gets the number zero.
MergeRowFillZero(k, right) ==
    LET m == Matches(k, right)
    IN  IF m = <<>>
        THEN << [left_on |-> k, right_on |-> NA, value |-> Num(0)] >>
        ELSE [j \in 1..Len(m) |->
                [left_on |-> k, right_on |-> m[j].right_on, value |-> m[j].value]]

\* One boundary row of DataFrame.merge(how='left'): a joined row per matching
\* right row, or a single row of missing values when nothing matches.
MergeRow(k, right) ==
    LET m == Matches(k, right)
    IN  IF m = <<>>
        THEN << [left_on |-> k, right_on |-> NA, value |-> NaN] >>
        ELSE [j \in 1..Len(m) |->
                [left_on |-> k, right_on |-> m[j].right_on, value |-> m[j].value]]

\* left.merge(right, left_on=..., right_on=..., how='left'): left order kept.
LeftMerge(keys, right) == Flatten([i \in 1..Len(keys) |-> MergeRow(keys[i], right)])

\* all_years_data[col] for the three years, appended year after year.
TheftRates(rows) ==
    Flatten([y \in 1..Len(TheftYears) |->
                [i \in 1..Len(rows) |-> rows[i].Theft_Rate[TheftYears[y]]]])

\* (Users_yr / Population_2011) * 100 of one row.
AdoptionRate(r, yr) == Times100(Div(r.Users[yr], r.Population_2011))

AdoptionRates(rows) ==
    Flatten([y \in 1..Len(AdoptionYears) |->
                [i \in 1..Len(rows) |-> AdoptionRate(rows[i], AdoptionYears[y])]])

\* Mutant: a truthiness test (not vmin or not vmax), which also takes 0 as omitted.
RecomputeFalsy(vmn, vmx) == vmn \in {None, Num(0)} \/ vmx \in {None, Num(0)}

\* Mutant: recompute only when both bounds are omitted.
RecomputeBothOmitted(vmn, vmx) == vmn = None /\ vmx = None

\* The vmin/vmax test that guards the scale computation.
Recompute(vmn, vmx) == vmn = None \/ vmx = None

\* Mutant: min and max assigned the wrong way round.
ListScaleSwapped(rates) == [lo |-> PyMax(rates), hi |-> PyMin(rates)]

\* vmin = min(rates); vmax = max(rates)
ListScale(rates) == [lo |-> PyMin(rates), hi |-> PyMax(rates)]

\* vmin = summary_data[column_name].min(); vmax = summary_data[column_name].max()
SeriesScale(column) == [lo |-> PdMin(column), hi |-> PdMax(column)]

NoOut == [gen |-> "none", status |-> "none", error |-> "", exploded |-> <<>>,
          merged |-> <<>>, vmin |-> None, vmax |-> None, image |-> <<>>]

Raised(g, e) == [NoOut EXCEPT !.gen = g, !.status = "raised", !.error = e]

Saved(g, ex, mg, lo, hi, img) ==
    [gen |-> g, status |-> "saved", error |-> "", exploded |-> ex,
     merged |-> mg, vmin |-> lo, vmax |-> hi, image |-> img]

----------------------------------------------------------------------------
(* The generators *)

generate_theft_heatmap(shp, csv, yr, vmn, vmx) ==
    IF ~shp.exists \/ ~csv.exists THEN Raised("theft", "FileNotFoundError")
    ELSE
    LET main_data == StripSplit(csv.rows)
        theft_rates == TheftRates(csv.rows)
    IN  IF Recompute(vmn, vmx) /\ theft_rates = <<>>
        THEN Raised("theft", "ValueError")
        ELSE
        LET lo == IF Recompute(vmn, vmx) THEN ListScale(theft_rates).lo ELSE vmn
            hi == IF Recompute(vmn, vmx) THEN ListScale(theft_rates).hi ELSE vmx
            main_data_exploded == StripCodes(Explode(main_data))
        IN  IF yr \notin Range(TheftYears) THEN Raised("theft", "KeyError")
            ELSE
            LET right == [i \in 1..Len(main_data_exploded) |->
                            [right_on |-> main_data_exploded[i].District_Code,
                             value |-> main_data_exploded[i].Theft_Rate[yr]]]
                merged_data == LeftMerge(shp.keys, right)
            IN  Saved("theft", main_data_exploded, merged_data, lo, hi,
                      <<"theft_heatmap", yr>>)

generate_adoption_heatmap(shp, csv, yr, vmn, vmx) ==
    IF ~shp.exists \/ ~csv.exists THEN Raised("adoption", "FileNotFoundError")
    ELSE IF yr \notin Range(AdoptionYears) THEN Raised("adoption", "KeyError")
    ELSE
    LET split == StripSplit(csv.rows)
        main_data == [i \in 1..Len(split) |->
                        [Adoption_Rate |-> AdoptionRate(split[i], yr)] @@ split[i]]
        main_data_exploded == StripCodes(Explode(main_data))
        right == [i \in 1..Len(main_data_exploded) |->
                    [right_on |-> main_data_exploded[i].District_Code,
                     value |-> main_data_exploded[i].Adoption_Rate]]
        merged_data == LeftMerge(shp.keys, right)
        adoption_rates == AdoptionRates(csv.rows)
    IN  IF Recompute(vmn, vmx) /\ adoption_rates = <<>>
        THEN Raised("adoption", "ValueError")
        ELSE
        LET lo == IF Recompute(vmn, vmx) THEN ListScale(adoption_rates).lo ELSE vmn
            hi == IF Recompute(vmn, vmx) THEN ListScale(adoption_rates).hi ELSE vmx
        IN  Saved("adoption", main_data_exploded, merged_data, lo, hi,
                  <<"adoption_heatmap", yr>>)

generate_summary_stat_heatmap(gjson, csv, col, vmn, vmx) ==
    IF ~gjson.exists \/ ~csv.exists THEN Raised("summary", "FileNotFoundError")
    ELSE
    LET summary_data == [i \in 1..Len(csv.rows) |->
                            [csv.rows[i] EXCEPT !.State = Strip(@)]]
    IN  IF col \notin Range(csv.columns) THEN Raised("summary", "KeyError")
        ELSE
        LET right == [i \in 1..Len(summary_data) |->
                        [right_on |-> summary_data[i].State,
                         value |-> summary_data[i].cols[col]]]
            merged_data == LeftMerge(gjson.keys, right)
            column == [i \in 1..Len(summary_data) |-> summary_data[i].cols[col]]
            lo == IF Recompute(vmn, vmx) THEN SeriesScale(column).lo ELSE vmn
            hi == IF Recompute(vmn, vmx) THEN SeriesScale(column).hi ELSE vmx
        IN  Saved("summary", summary_data, merged_data, lo, hi,
                  <<"summary_stats", col>>)

\* One call of a generator from the idle program: the call's result, and the
\* image it saved (if it got that far).
Finish(r) ==
    /\ out' = r
    /\ images' = IF r.status = "saved" THEN images \cup {r.image} ELSE images
    /\ pc' = IF r.status = "saved" THEN "returned" ELSE "raised"
    /\ UNCHANGED <<files, args, calls, loop_i, program, scales>>

CallTheft ==
    /\ pc = "idle"
    /\ Finish(generate_theft_heatmap(india_districts_shp, main_data_csv, year, vmin, vmax))

CallAdoption ==
    /\ pc = "idle"
    /\ Finish(generate_adoption_heatmap(india_districts_shp, main_data_csv, year, vmin, vmax))

CallSummary ==
    /\ pc = "idle"
    /\ Finish(generate_summary_stat_heatmap(india_states_gjson, summary_csv,
                                            column_name, vmin, vmax))

Next == CallTheft \/ CallAdoption \/ CallSummary

----------------------------------------------------------------------------
(* Inputs *)

SummaryColumns == <<"Rate", "Count">>

File(k) == [exists |-> TRUE, keys |-> k]

\* A row of main_data.csv: x[1..3] are the three yearly values of both series.
MainRow(code, x, pop) ==
    [District_Code |-> code,
     Theft_Rate |-> [y \in Range(TheftYears) |-> x[y - 2016]],
     Users |-> [y \in Range(AdoptionYears) |-> x[y - 2017]],
     Population_2011 |-> pop]

\* A row of Summary_Stats_Data.csv.
SummaryRow(code, x) ==
    [State |-> code, cols |-> [c \in Range(SummaryColumns) |-> x[IF c = "Rate" THEN 1 ELSE 2]]]

MainCsv(p) ==
    [exists |-> TRUE,
     rows |-> [i \in 1..Len(p) |-> MainRow(p[i].code, p[i].x, p[i].pop)]]

SummaryCsv(p) ==
    [exists |-> TRUE, columns |-> SummaryColumns,
     rows |-> [i \in 1..Len(p) |-> SummaryRow(p[i].code, p[i].x)]]

\* The state before a program runs: the five files hold the boundary keys and
\* the table given by the row parameters p; no image has been written.
Start(keys, p, y, c, lo, hi) ==
    /\ india_districts_shp = File(keys)
    /\ india_districts_gjson = File(keys)
    /\ india_states_gjson = File(keys)
    /\ main_data_csv = MainCsv(p)
    /\ summary_csv = SummaryCsv(p)
    /\ year = y
    /\ column_name = c
    /\ vmin = lo
    /\ vmax = hi
    /\ out = NoOut
    /\ images = {}
    /\ calls = <<>>
    /\ loop_i = 0
    /\ scales = <<>>

Seqs(S, lo, hi) == UNION {[1..n -> S] : n \in lo..hi}

Alphabet == {"a", "b", SP, COMMA}
A == <<"a">>
B == <<"b">>
C == <<"c">>

\* The field of the specification's example, " AB01 , CD02 ", one symbol per code.
ExampleField == <<SP, "a", SP, COMMA, SP, "b", SP>>

\* Normalisation inputs: every raw field of up to MaxLen symbols in the first
\* row, optionally followed by a second row.
NormFields == Seqs(Alphabet, 1, MaxLen) \cup {ExampleField}
NormTables ==
    {<<[code |-> f, x |-> <<Num(10), Num(10), Num(10)>>, pop |-> Num(100)]>> \o more :
        f \in NormFields,
        more \in {<<>>, <<[code |-> <<"b", COMMA, "a">>,
                            x |-> <<Num(20), Num(20), Num(20)>>, pop |-> Num(100)]>>}}

InitNorm ==
    /\ pc = "idle"
    /\ program = "library"
    /\ \E p \in NormTables : Start(<<A, B>>, p, 2018, "Rate", None, None)

\* Join inputs: up to MaxRows rows whose fields name one or two regions, and
\* up to MaxFeatures boundary polygons.
JoinCodes == {<<"a", COMMA, "b">>, C, <<SP, "a", SP>>}
JoinVals == {Num(10), Num(20)}
JoinRows == {[code |-> c, x |-> <<v, v, v>>, pop |-> Num(100)] : c \in JoinCodes, v \in JoinVals}

InitJoin ==
    /\ pc = "idle"
    /\ program = "library"
    /\ \E keys \in Seqs({A, B, C}, 1, MaxFeatures), p \in Seqs(JoinRows, 0, MaxRows) :
          Start(keys, p, 2018, "Rate", None, None)

\* Scale inputs: up to MaxScaleRows rows with every combination of present,
\* missing and zero values, and every combination of given and omitted bounds.
ScaleVals == {NaN, Num(0), Num(2)}
PopVals == {NaN, Num(0), Num(1)}
ScaleArgs == {None, Num(0), Num(3)}
ScaleRows == {[code |-> A, x |-> x, pop |-> pop] : x \in [1..3 -> ScaleVals], pop \in PopVals}

InitScale ==
    /\ pc = "idle"
    /\ program = "library"
    /\ \E keys \in {<<A>>, <<B>>}, p \in Seqs(ScaleRows, 0, MaxScaleRows),
          y \in {2018, 2019}, lo \in ScaleArgs, hi \in ScaleArgs :
          Start(keys, p, y, "Rate", lo, hi)

\* Rate inputs: the scale inputs whose Population_2011 is present and not zero,
\* so that a missing rate comes from a missing cell of the table alone.
RateRows == {r \in ScaleRows : r.pop = Num(1)}

InitRates ==
    /\ pc = "idle"
    /\ program = "library"
    /\ \E keys \in {<<A>>, <<B>>}, p \in Seqs(RateRows, 0, MaxScaleRows),
          y \in {2018, 2019}, lo \in ScaleArgs, hi \in ScaleArgs :
          Start(keys, p, y, "Rate", lo, hi)

Init == InitNorm \/ InitJoin \/ InitScale
Spec == Init /\ [][Next]_vars
SpecNorm == InitNorm /\ [][Next]_vars
SpecJoin == InitJoin /\ [][Next]_vars
SpecScale == InitScale /\ [][Next]_vars
SpecRates == InitRates /\ [][Next]_vars

----------------------------------------------------------------------------
(* The batch drivers *)

Unreadable(f) == [f EXCEPT !.exists = FALSE]

\* ensure_shapefile(): convert the GeoJSON when the shapefile is not there.
EnsureShapefile ==
    /\ pc = "heatmaps_main"
    /\ IF india_districts_shp.exists
       THEN pc' = "scales" /\ UNCHANGED india_districts_shp
       ELSE IF india_districts_gjson.exists
       THEN pc' = "scales" /\ india_districts_shp' = india_districts_gjson
       ELSE pc' = "aborted" /\ UNCHANGED india_districts_shp
    /\ UNCHANGED <<india_districts_gjson, india_states_gjson, main_data_csv, summary_csv,
                   args, out, images, calls, loop_i, program, scales>>

\* heatmaps.__main__ up to its loops: min/max of the theft rates and of the
\* adoption rates over all years.
ComputeScales ==
    /\ pc = "scales"
    /\ \E readable \in BOOLEAN :
          IF ~readable \/ main_data_csv.rows = <<>>
          THEN pc' = "aborted" /\ UNCHANGED <<scales, loop_i>>
          ELSE /\ scales' = [theft |-> ListScale(TheftRates(main_data_csv.rows)),
                             adoption |-> ListScale(AdoptionRates(main_data_csv.rows))]
               /\ pc' = "theft_loop"
               /\ loop_i' = 1
    /\ UNCHANGED <<files, args, out, images, calls, program>>

\* Mutant: the failure of a call is swallowed and the loop goes on.
AfterCallContinue(r, last, nextpc) ==
    /\ out' = r
    /\ images' = IF r.status = "saved" THEN images \cup {r.image} ELSE images
    /\ IF ~last
       THEN pc' = pc /\ loop_i' = loop_i + 1
       ELSE pc' = nextpc /\ loop_i' = 1

\* What a loop iteration does with the call it made: the saved image is on
\* disk and the loop moves on, or the exception ends the program.
AfterCall(r, last, nextpc) ==
    /\ out' = r
    /\ images' = IF r.status = "saved" THEN images \cup {r.image} ELSE images
    /\ IF r.status # "saved"
       THEN pc' = "aborted" /\ UNCHANGED loop_i
       ELSE IF ~last
       THEN pc' = pc /\ loop_i' = loop_i + 1
       ELSE pc' = nextpc /\ loop_i' = 1

\* for year in [2017, 2018, 2019]: generate_theft_heatmap(year, vmin=..., vmax=...)
TheftIteration ==
    /\ pc = "theft_loop"
    /\ \E readable \in BOOLEAN :
          LET csv == IF readable THEN main_data_csv ELSE Unreadable(main_data_csv)
              yr == TheftYears[loop_i]
          IN  /\ calls' = Append(calls, <<"theft_heatmap", yr>>)
              /\ AfterCall(generate_theft_heatmap(india_districts_shp, csv, yr,
                                                  scales.theft.lo, scales.theft.hi),
                           loop_i = Len(TheftYears), "adoption_loop")
    /\ UNCHANGED <<files, args, program, scales>>

\* for year in [2018, 2019, 2020]: generate_adoption_heatmap(year, vmin=..., vmax=...)
AdoptionIteration ==
    /\ pc = "adoption_loop"
    /\ \E readable \in BOOLEAN :
          LET csv == IF readable THEN main_data_csv ELSE Unreadable(main_data_csv)
              yr == AdoptionYears[loop_i]
          IN  /\ calls' = Append(calls, <<"adoption_heatmap", yr>>)
              /\ AfterCall(generate_adoption_heatmap(india_districts_shp, csv, yr,
                                                     scales.adoption.lo, scales.adoption.hi),
                           loop_i = Len(AdoptionYears), "done")
    /\ UNCHANGED <<files, args, program, scales>>

\* generate_all_summary_heatmaps() up to its loop: the numeric columns and the
\* min/max of each.
SummaryScales ==
    /\ pc = "summ_stats_main"
    /\ \E readable \in BOOLEAN :
          IF ~readable
          THEN pc' = "aborted" /\ UNCHANGED <<scales, loop_i>>
          ELSE /\ scales' = [c \in Range(summary_csv.columns) |->
                               SeriesScale([i \in 1..Len(summary_csv.rows) |->
                                               summary_csv.rows[i].cols[c]])]
               /\ pc' = IF summary_csv.columns = <<>> THEN "done" ELSE "summary_loop"
               /\ loop_i' = 1
    /\ UNCHANGED <<files, args, out, images, calls, program>>

\* for column in numeric_columns: generate_summary_stat_heatmap(column, vmin=..., vmax=...)
SummaryIteration ==
    /\ pc = "summary_loop"
    /\ \E readable \in BOOLEAN :
          LET csv == IF readable THEN summary_csv ELSE Unreadable(summary_csv)
              column == summary_csv.columns[loop_i]
          IN  /\ calls' = Append(calls, <<"summary_stats", column>>)
              /\ AfterCall(generate_summary_stat_heatmap(india_states_gjson, csv, column,
                                                         scales[column].lo, scales[column].hi),
                           loop_i = Len(summary_csv.columns), "done")
    /\ UNCHANGED <<files, args, program, scales>>

NextBatch ==
    \/ EnsureShapefile
    \/ ComputeScales
    \/ TheftIteration
    \/ AdoptionIteration
    \/ SummaryScales
    \/ SummaryIteration

\* Batch inputs: either module run as a script, on the join tables, with the
\* shapefile and the GeoJSON each present or not.
InitBatch ==
    /\ program \in {"heatmaps", "summ_stats"}
    /\ pc = IF program = "heatmaps" THEN "heatmaps_main" ELSE "summ_stats_main"
    /\ \E p \in Seqs(JoinRows, 0, MaxRows), shp \in BOOLEAN, gj \in BOOLEAN :
          /\ india_districts_shp = [exists |-> shp, keys |-> <<A, B>>]
          /\ india_districts_gjson = [exists |-> gj, keys |-> <<A, B>>]
          /\ india_states_gjson = File(<<A, B>>)
          /\ main_data_csv = MainCsv(p)
          /\ summary_csv = SummaryCsv(p)
    /\ year = 2017
    /\ column_name = "Rate"
    /\ vmin = None
    /\ vmax = None
    /\ out = NoOut
    /\ images = {}
    /\ calls = <<>>
    /\ loop_i = 0
    /\ scales = <<>>

SpecBatch == InitBatch /\ [][NextBatch]_vars

----------------------------------------------------------------------------
(* Properties of one generator call *)

SavedBy(G) == out.status = "saved" /\ out.gen \in G
District == {"theft", "adoption"}

\* The caller left at least one bound of the scale out.
ScaleOmitted == vmin = None \/ vmax = None
AllGens == {"theft", "adoption", "summary"}

\* The boundary table the last call joined against.
BoundaryKeys ==
    IF out.gen = "summary" THEN india_states_gjson.keys ELSE india_districts_shp.keys

\* Positions of the commas of a raw field, and the cut points around its pieces.
CommaAt(raw) == {p \in 1..Len(raw) : raw[p] = COMMA}
Cuts(raw) == {0} \cup CommaAt(raw) \cup {Len(raw) + 1}
NthCut(raw, j) == CHOOSE c \in Cuts(raw) : Cardinality({d \in Cuts(raw) : d < c}) = j
Segment(raw, j) == SubSeq(raw, NthCut(raw, j - 1) + 1, NthCut(raw, j) - 1)

Trimmed(s) == s = <<>> \/ (s[1] # SP /\ s[Len(s)] # SP)
Inked(s) == {p \in 1..Len(s) : s[p] # SP}
Least(S) == CHOOSE x \in S : \A y \in S : x <= y
Greatest(S) == CHOOSE x \in S : \A y \in S : y <= x
TrimOf(s) == IF Inked(s) = {} THEN <<>> ELSE SubSeq(s, Least(Inked(s)), Greatest(Inked(s)))

\* The exploded rows that come from statistics row i.
Group(i) == LET From(r) == r.idx = i IN SelectSeq(out.exploded, From)

\* The codes a statistics row stands for.
CodesOf(r) == {TrimOf(Segment(r.District_Code, j)) :
                 j \in 1..(Cardinality(CommaAt(r.District_Code)) + 1)}

\* The value the last call maps for a statistics row.
ValueOf(r) ==
    IF out.gen = "theft" THEN r.Theft_Rate[year]
    ELSE Times100(Div(r.Users[year], r.Population_2011))

\* C1: the joined output has exactly as many rows as the boundary table.
C1_JoinedRowCountEqualsBoundary ==
    SavedBy(AllGens) => Len(out.merged) = Len(BoundaryKeys)

\* C2: a District_Code field of K comma-separated tokens is exploded into exactly
\* K rows, in token order, each holding one trimmed token and every other
\* field of the source row unchanged.
C2_ExplodeKeepsRowsAndValues ==
    SavedBy(District) =>
        /\ \A i \in 1..Len(main_data_csv.rows) :
              LET row == main_data_csv.rows[i]
                  K == Cardinality(CommaAt(row.District_Code)) + 1
                  g == Group(i)
              IN  /\ Len(g) = K
                  /\ \A j \in 1..Len(g) :
                        /\ g[j].District_Code = TrimOf(Segment(row.District_Code, j))
                        /\ Trimmed(g[j].District_Code)
                        /\ g[j].Theft_Rate = row.Theft_Rate
                        /\ g[j].Users = row.Users
                        /\ g[j].Population_2011 = row.Population_2011
        /\ \A a, b \in 1..Len(out.exploded) : a <= b => out.exploded[a].idx <= out.exploded[b].idx
        /\ \A a \in 1..Len(out.exploded) : out.exploded[a].idx \in 1..Len(main_data_csv.rows)

C2_Witness ==
    /\ SavedBy({"theft"})
    /\ main_data_csv.rows[1].District_Code = ExampleField
    /\ Len(main_data_csv.rows) = 2
    /\ [i \in 1..Len(out.exploded) |-> out.exploded[i].District_Code] = <<A, B, B, A>>

\* C3: an explicit (vmin, vmax) pair reaches the render step unchanged.
C3_ExplicitScaleUsedVerbatim ==
    (SavedBy(AllGens) /\ vmin # None /\ vmax # None) =>
        (out.vmin = vmin /\ out.vmax = vmax)

C3_Witness ==
    /\ SavedBy({"theft"})
    /\ vmin = Num(0) /\ vmax = Num(3)
    /\ out.vmin = Num(0) /\ out.vmax = Num(3)
    /\ main_data_csv.rows # <<>>
    /\ \A y \in Range(TheftYears) : main_data_csv.rows[1].Theft_Rate[y] = Num(2)

\* The values the scale of the district generators spans.
ScaleValues ==
    IF out.gen = "theft"
    THEN {main_data_csv.rows[i].Theft_Rate[y] :
            i \in 1..Len(main_data_csv.rows), y \in Range(TheftYears)}
    ELSE {Times100(Div(main_data_csv.rows[i].Users[y], main_data_csv.rows[i].Population_2011)) :
            i \in 1..Len(main_data_csv.rows), y \in Range(AdoptionYears)}

Present(S) == {v \in S : v.k # "nan"}
IsTrueMin(v, S) ==
    IF Present(S) = {} THEN v = NaN ELSE v \in Present(S) /\ \A w \in Present(S) : Leq(v, w)
IsTrueMax(v, S) ==
    IF Present(S) = {} THEN v = NaN ELSE v \in Present(S) /\ \A w \in Present(S) : Leq(w, v)

\* C4: with no explicit scale, the computed (vmin, vmax) is the true minimum and
\* maximum over all values of all years in the raw statistics table.
C4_ComputedScaleIsTrueMinMax ==
    (SavedBy(District) /\ ScaleOmitted) =>
        (IsTrueMin(out.vmin, ScaleValues) /\ IsTrueMax(out.vmax, ScaleValues))

\* C5: a row whose Population_2011 is zero or missing gets the missing value as
\* its adoption rate, never infinity, and so does the polygon joined to it.
C5_ZeroBaselineIsNoData ==
    SavedBy({"adoption"}) =>
        /\ \A i \in 1..Len(out.exploded) :
              out.exploded[i].Population_2011 \in {Num(0), NaN}
                  => out.exploded[i].Adoption_Rate = NaN
        /\ \A i \in 1..Len(out.merged) : out.merged[i].value # Inf

\* C6: normalisation yields only non-empty codes without leading or trailing
\* whitespace.
C6_CodesNonEmptyAndTrimmed ==
    SavedBy(District) =>
        \A i \in 1..Len(out.exploded) :
            /\ out.exploded[i].District_Code # <<>>
            /\ Trimmed(out.exploded[i].District_Code)

\* C7: a joined boundary feature carries the value of a statistics record that
\* names its key, and the missing value (never zero) when no record names it;
\* boundaries A1, A2, A3 with records ("A1,A2", 10), ("A3", 20) give 10, 10, 20.
C7_JoinedValueOrNoData ==
    SavedBy(District) =>
        /\ \A i \in 1..Len(out.merged) :
              LET m == out.merged[i]
                  hits == {r \in Range(main_data_csv.rows) : m.left_on \in CodesOf(r)}
              IN  IF hits = {} THEN m.value = NaN
                  ELSE m.value \in {ValueOf(r) : r \in hits}
        /\ Range(india_districts_shp.keys) = {out.merged[i].left_on : i \in 1..Len(out.merged)}
        /\ (/\ india_districts_shp.keys = <<A, B, C>>
            /\ Len(main_data_csv.rows) = 2
            /\ main_data_csv.rows[1].District_Code = <<"a", COMMA, "b">>
            /\ main_data_csv.rows[2].District_Code = C
            /\ ValueOf(main_data_csv.rows[1]) = Num(10)
            /\ ValueOf(main_data_csv.rows[2]) = Num(20))
           => [i \in 1..Len(out.merged) |-> out.merged[i].value] = <<Num(10), Num(10), Num(20)>>

C7_Witness ==
    /\ SavedBy({"theft"})
    /\ india_districts_shp.keys = <<A, B, C>>
    /\ Len(main_data_csv.rows) = 2
    /\ main_data_csv.rows[1].District_Code = <<"a", COMMA, "b">>
    /\ main_data_csv.rows[2].District_Code = C
    /\ [i \in 1..Len(out.merged) |-> out.merged[i].value] = <<Num(10), Num(10), Num(20)>>

C10_OneBoundGivenBothRecomputed ==
    (SavedBy(AllGens) /\ (vmin = None) # (vmax = None)) =>
        LET fresh ==
              IF out.gen = "theft"
              THEN generate_theft_heatmap(india_districts_shp, main_data_csv, year, None, None)
              ELSE IF out.gen = "adoption"
              THEN generate_adoption_heatmap(india_districts_shp, main_data_csv, year, None, None)
              ELSE generate_summary_stat_heatmap(india_states_gjson, summary_csv,
                                                 column_name, None, None)
        IN  out.vmin = fresh.vmin /\ out.vmax = fresh.vmax /\ out.vmin # None /\ out.vmax # None

C10_Witness ==
    /\ SavedBy({"theft"})
    /\ vmin = Num(3) /\ vmax = None
    /\ out.vmin = Num(0) /\ out.vmax = Num(2)

----------------------------------------------------------------------------
(* Properties of the batch drivers *)

\* The calls a driver makes, in order, when nothing fails.
Plan ==
    IF program = "heatmaps"
    THEN [i \in 1..Len(TheftYears) |-> <<"theft_heatmap", TheftYears[i]>>]
         \o [i \in 1..Len(AdoptionYears) |-> <<"adoption_heatmap", AdoptionYears[i]>>]
    ELSE [i \in 1..Len(summary_csv.columns) |-> <<"summary_stats", summary_csv.columns[i]>>]

\* The number of calls that returned.
Completed == IF pc = "aborted" /\ out.status = "raised" THEN Len(calls) - 1 ELSE Len(calls)

\* C9: a batch driver makes its calls one after another in the planned order,
\* each completed call has written exactly its one image, and once a call
\* fails the images written so far stay, no further image is written and no
\* call is made again.
C9_BatchAbortsAtFirstFailure ==
    /\ [](/\ Len(calls) <= Len(Plan)
          /\ calls = SubSeq(Plan, 1, Len(calls))
          /\ images = {Plan[j] : j \in 1..Completed}
          /\ Cardinality(images) = Completed)
    /\ [][/\ images \subseteq images'
          /\ Len(calls') <= Len(calls) + 1
          /\ pc = "aborted" => (images' = images /\ calls' = calls /\ pc' = pc)]_vars

C9_Witness ==
    /\ program = "heatmaps"
    /\ pc = "aborted"
    /\ out.status = "raised"
    /\ Len(calls) = 3
    /\ images = {<<"theft_heatmap", 2017>>, <<"theft_heatmap", 2018>>}

============================================================================
